---- MODULE Spec2Model ----
(***************************************************************************)
(* A model of the todo list core: the task composition model (tasks        *)
(* module), the password policy (checkSecret and its regular expressions), *)
(* the exception classes and the in-memory api service                     *)
(* (InMemoryApiService).                                                   *)
(*                                                                         *)
(* JavaScript values are modelled as follows.  The result of reading a     *)
(* property is one of the strings "true", "false", "undefined", or the     *)
(* name of the error the read throws ("TypeError").  The result of calling *)
(* an operation is a record saying how the call ended: "resolved" or       *)
(* "rejected" (the returned promise settled that way) or "thrown" (the     *)
(* call threw before it returned a promise), with the kind of the error.   *)
(***************************************************************************)
EXTENDS Integers, Sequences, FiniteSets, TLC

VARIABLES
    taskDone,       \* tasks: the done flag of each simple (mutable) task
    linkedTask,     \* tasks: the value the last linked task factory call returned
    blockingTask,   \* tasks: the value returned by createCompleteAllStepsBlockingTask
    secretCall,     \* password policy: the last checkSecret call and how it ended
    users,          \* service: #users, own property name -> user record
    sessions,       \* service: #sessions, own property name -> session record or null
    content,        \* service: #content, own property name -> array of content entries
    reservedSessionSecrets, \* service: #reservedSessionSecrets
    sessionTimeOut, \* service: #sessionTimeOut
    now,            \* service: the clock Date.now() reads
    call,           \* service: the last call made to the service and how it ended
    construction,   \* service: the last new InMemoryApiService(param) and how it ended
    moduleSession,  \* session module: the last call of the module and the session it made
    allocation      \* apiServices createSession / createUser: the id allocation loop

taskVars == <<taskDone, linkedTask, blockingTask>>

secretVars == <<secretCall>>

serviceVars == <<users, sessions, content, reservedSessionSecrets, sessionTimeOut, now, call>>

constructionVars == <<construction>>

sessionModuleVars == <<moduleSession>>

allocationVars == <<allocation>>

vars == <<taskDone, linkedTask, blockingTask, secretCall,
          users, sessions, content, reservedSessionSecrets, sessionTimeOut, now, call,
          construction, moduleSession, allocation>>

-----------------------------------------------------------------------------
(* Bounds *)

\* The longest member list (completedBy, blockedBy) handed to a task factory.
MaxMembers == 2

\* The simple tasks composites are built from.
TaskNames == {"A", "B"}

RECURSIVE SeqsUpTo(_, _)
SeqsUpTo(S, n) ==
    IF n = 0 THEN {<<>>}
    ELSE LET shorter == SeqsUpTo(S, n - 1)
         IN  shorter \cup {Append(s, x) : s \in {t \in shorter : Len(t) = n - 1}, x \in S}

MemberLists == SeqsUpTo(TaskNames, MaxMembers)

\* The longest candidate secret handed to checkSecret.
MaxSecretLen == 4

\* The characters candidate secrets are made of, one or two per Unicode
\* category the regular expressions tell apart ("aleph" stands for the letter
\* U+05D0, which is neither upper nor lower case, "tab" for U+0009).
Alphabet == {"a", "A", "1", "!", " ", "$", "aleph", "tab"}

\* The latest reading of the clock.
MaxTime == 2

\* The iterations of an allocation loop the model follows.
MaxIterations == 3

-----------------------------------------------------------------------------
(* JavaScript values *)

\* A boolean as the model's property value.
BoolStr(b) == IF b THEN "true" ELSE "false"

\* ToBoolean of a property value: undefined is falsy.
Truthy(v) == v = "true"

\* Values that travel through promises and exceptions are tagged records.
Undefined == [type |-> "undefined"]

Null == [type |-> "null"]

Num(n) == [type |-> "number", n |-> n]

\* A string as the sequence of its characters.
Str(chars) == [type |-> "string", chars |-> chars]

\* typeof value
TypeOf(v) ==
    IF v.type \in {"null", "error", "array", "Promise"} THEN "object" ELSE v.type

\* How a call ended: the promise it returned was resolved or rejected, or the
\* call threw synchronously and returned no promise.
Resolved(v) == [state |-> "resolved", value |-> v]

Rejected(e) == [state |-> "rejected", value |-> e]

Thrown(e) == [state |-> "thrown", value |-> e]

NotCalled == [state |-> "none", value |-> Undefined]

\* The returned promise never settles.
Pending == [state |-> "pending", value |-> Undefined]

\* The promise object a call returned, as a value the caller goes on to use.
PromiseObject(outcome) ==
    [type |-> "Promise", state |-> outcome.state, value |-> outcome.value]

-----------------------------------------------------------------------------
(* The tasks module *)

\* createSimpleTask(name, done): done is coerced with done == true.
createSimpleTask(name, done) == [name |-> name, done |-> (done = TRUE)]

\* task.done of the simple task called name, read from the live object.
SimpleTask_done(name) == taskDone[name]

\* The default completionFn: members.every(task => task.done).
EveryDone(members) == \A i \in DOMAIN members : SimpleTask_done(members[i])

\* members.some(task => task.done)
SomeDone(members) == \E i \in DOMAIN members : SimpleTask_done(members[i])

\* The number of done members: the reduce() of the blocking task's done getter.
RECURSIVE CountDone(_)
CountDone(members) ==
    IF members = <<>> THEN 0
    ELSE (IF SimpleTask_done(Head(members)) THEN 1 ELSE 0) + CountDone(Tail(members))

\* completionFn(this.completedBy) for the two predicates the factories pass.
ApplyCompletionFn(fn, members) ==
    IF fn = "every" THEN EveryDone(members) ELSE SomeDone(members)

\* The object literal createLinkedTask builds (its getters are LinkedTask_*).
LinkedTaskObject(name, members, fn) ==
    [type |-> "LinkedTask", name |-> name, completedBy |-> members, completionFn |-> fn]

\* createLinkedTask returns Promise.resolve(result), not result.
createLinkedTask(name, members, fn) ==
    [type |-> "Promise", state |-> "fulfilled", value |-> LinkedTaskObject(name, members, fn)]

createCompleteAllTask(name, completedBy) == createLinkedTask(name, completedBy, "every")

createCompleteAnyTask(name, completedBy) == createLinkedTask(name, completedBy, "some")

\* get done() with the test of get partial() in the place of completionFn.
LinkedTask_done_SomeMember(t) == BoolStr(SomeDone(t.completedBy))

\* get done() of the linked task object.
LinkedTask_done(t) == BoolStr(ApplyCompletionFn(t.completionFn, t.completedBy))

\* get partial() of the linked task object.
LinkedTask_partial(t) == BoolStr(SomeDone(t.completedBy) /\ ~Truthy(LinkedTask_done(t)))

\* Reading a property of a value a linked task factory returned.  A promise
\* has no own or inherited done, partial or completedBy: the read is undefined.
GetLinked(obj, prop) ==
    IF obj.type = "Promise" THEN "undefined"
    ELSE IF prop = "done" THEN LinkedTask_done(obj)
    ELSE IF prop = "partial" THEN LinkedTask_partial(obj)
    ELSE "undefined"

\* The object literal createCompleteAllStepsBlockingTask returns.
createCompleteAllStepsBlockingTask(name, completedBy, blockedBy) ==
    [type |-> "BlockableLinkedTask", name |-> name,
     completedBy |-> completedBy, blockedBy |-> blockedBy]

\* get blocked(): blockedBy.length > 0 && blockedBy.anyMatch(...).  Arrays have
\* no anyMatch method, so the call throws a TypeError when it is reached.
BlockingTask_blocked(t) ==
    IF Len(t.blockedBy) > 0 THEN "TypeError" ELSE "false"

\* this.prohibited: the object defines no such property.
BlockingTask_prohibited(t) == "undefined"

\* get done()
BlockingTask_done(t) ==
    IF Truthy(BlockingTask_prohibited(t)) THEN "false"
    ELSE IF CountDone(t.completedBy) = Len(t.completedBy) THEN "true" ELSE "undefined"

\* get partial(): this.done === undefined
BlockingTask_partial(t) == BoolStr(BlockingTask_done(t) = "undefined")

-----------------------------------------------------------------------------
(* The exceptions module *)

\* Error(message, options) installs a cause only when options is an object
\* that has a "cause" property, and then installs the value of that property.
InstallErrorCause(options) ==
    IF options.type = "error" THEN options.cause ELSE Undefined

\* new SyntaxError(message), new TypeError(message), new ReferenceError(message)
NativeError(name, message) ==
    [type |-> "error", name |-> name, message |-> message, cause |-> Undefined]

\* class Exception: constructor(message, cause, detail) calls super(message, cause),
\* which hands the cause to Error as its options argument; name is the name of
\* the constructing class.
Exception(name, message, cause, detail) ==
    [type |-> "error", name |-> name, message |-> message,
     cause |-> InstallErrorCause(cause), detail |-> detail]

\* class InvalidParameterException(parameterName, parameterValue, message, cause)
InvalidParameterException(parameterName, parameterValue, message, cause) ==
    Exception("InvalidParameterException", message, cause,
              [type |-> "object", parameterName |-> parameterName,
               parameterValue |-> parameterValue])

\* A string the model does not look into (an identifier, a status message).
IdStr(text) == [type |-> "string", text |-> text]

\* An array literal.
Array(items) == [type |-> "array", items |-> items]

\* A parameter default: the default applies when the argument is undefined.
DefaultTo(v, d) == IF v = Undefined THEN d ELSE v

\* validMessageRegex.test(text).  The sentence pattern is built by adding a
\* RegExp object to a string, so the text of the pattern carries the slashes
\* and the flag of that object: a text matches only when it reads
\* "/", an upper case letter, letters, digits or punctuation, "/u", and then
\* optional further words.  Of the texts of the model only "/Ok/u" matches.
validMessageRegex(text) == text \in {"/Ok/u"}

\* HttpStatusDetail.validStatusCode(statusCode)
validStatusCode(statusCode) ==
    statusCode.type = "number" /\ statusCode.n >= 0 /\ statusCode.n < 599

\* HttpStatusDetail.validMessage(message): a string is tested against the
\* pattern, an object is valid only when it is null, any other type falls
\* through the switch and yields undefined.
validMessage(message) ==
    CASE message.type = "string" -> validMessageRegex(message.text)
      [] message.type \in {"null", "array", "object", "error"} -> message = Null
      [] OTHER -> FALSE

\* new HttpStatusDetail(statusCode, message): the detail, or the error that
\* checkStatus or checkMessage throws.
HttpStatusDetail(statusCode, message) ==
    LET code == DefaultTo(statusCode, Num(500))
        text == DefaultTo(message, Null)
    IN  IF ~validStatusCode(code) THEN NativeError("TypeError", "Invalid status code")
        ELSE IF ~validMessage(text) THEN NativeError("SyntaxError", "Invalid status message")
        ELSE [type |-> "object", statusCode |-> code, message |-> text]

\* The constructor of HttpStatusException as run for the class called name:
\* super(message, cause, new HttpStatusDetail(statusCode, statusMessage)).
\* The value is the exception built, or the error the detail's constructor
\* throws in its place.
NewHttpStatusException(name, message, cause, statusCode, statusMessage) ==
    LET detail == HttpStatusDetail(statusCode, statusMessage)
    IN  IF detail.type = "error" THEN detail
        ELSE Exception(name, message, cause, detail)

HttpStatusException(message, cause, statusCode, statusMessage) ==
    NewHttpStatusException("HttpStatusException", message, cause, statusCode, statusMessage)

NotFoundException(message, cause, statusMessage) ==
    NewHttpStatusException("NotFoundException", message, cause, Num(404), statusMessage)

AuthenticationRequiredException(message, cause, statusMessage) ==
    NewHttpStatusException("AuthenticationRequiredException", message, cause, Num(401),
                           statusMessage)

BadRequestException(message, cause) ==
    NewHttpStatusException("BadRequestException", message, cause, Num(400), Undefined)

AccessForbiddenException(message, cause, statusMessage) ==
    NewHttpStatusException("AccessForbiddenException", message, cause, Num(403), statusMessage)

-----------------------------------------------------------------------------
(* The password policy *)

\* The Unicode general category of each character of the alphabet.
Category(c) ==
    CASE c = "a" -> "Ll"
      [] c = "A" -> "Lu"
      [] c = "1" -> "Nd"
      [] c = "!" -> "Po"
      [] c = " " -> "Zs"
      [] c = "$" -> "Sc"
      [] c = "aleph" -> "Lo"
      [] c = "tab" -> "Cc"

IsLetter(c) == Category(c) \in {"Ll", "Lu", "Lo"}

IsNumber(c) == Category(c) = "Nd"

IsPunctuation(c) == Category(c) = "Po"

\* [\p{L}\p{N}\p{P}]
IsWordChar(c) == IsLetter(c) \/ IsNumber(c) \/ IsPunctuation(c)

\* VALID_PASSWORD_REGEX.test(s):
\* /^(?:[\p{L}\p{N}\p{P}])(?:[\p{L}\p{N}\p{P} ]*[\p{L}\p{N}\p{P}])?$/u
VALID_PASSWORD_REGEX(s) ==
    /\ Len(s) >= 1
    /\ IsWordChar(s[1])
    /\ Len(s) >= 2 =>
          /\ \A i \in 2 .. Len(s) - 1 : IsWordChar(s[i]) \/ s[i] = " "
          /\ IsWordChar(s[Len(s)])

\* HAS_UPPER_CASE_LETTER_REGEX.test(s): /\p{Lu}/u
HAS_UPPER_CASE_LETTER_REGEX(s) == \E i \in DOMAIN s : Category(s[i]) = "Lu"

\* HAS_LOWER_CASE_LETTER_REGEX.test(s): /\p{Ll}/u
HAS_LOWER_CASE_LETTER_REGEX(s) == \E i \in DOMAIN s : Category(s[i]) = "Ll"

\* HAS_PUNCTUATION_REGEX.test(s): /\p{P}/u
HAS_PUNCTUATION_REGEX(s) == \E i \in DOMAIN s : IsPunctuation(s[i])

\* HAS_DIGIT_REGEX.test(s): /\p{N}/u
HAS_DIGIT_REGEX(s) == \E i \in DOMAIN s : IsNumber(s[i])

\* The rejection checkSecret builds around each cause.
SecretRejection(message, cause) ==
    Rejected(InvalidParameterException("secret", Undefined, message, cause))

\* checkSecret(secret, message): the settled promise it returns.
checkSecret(secret, message) ==
    IF TypeOf(secret) = "string" THEN
        IF VALID_PASSWORD_REGEX(secret.chars) THEN
            IF ~HAS_LOWER_CASE_LETTER_REGEX(secret.chars) THEN
                SecretRejection(message, NativeError("SyntaxError", "Missing lower case letter"))
            ELSE IF ~HAS_UPPER_CASE_LETTER_REGEX(secret.chars) THEN
                SecretRejection(message, NativeError("SyntaxError", "Missing upper case letter"))
            ELSE IF ~HAS_DIGIT_REGEX(secret.chars) THEN
                SecretRejection(message, NativeError("SyntaxError", "Missing digit"))
            ELSE IF ~HAS_PUNCTUATION_REGEX(secret.chars) THEN
                SecretRejection(message, NativeError("SyntaxError", "Missing punctuation character"))
            ELSE Resolved(secret)
        ELSE SecretRejection(message, NativeError("SyntaxError", "Secret must start and end letter, number, or punctuation character, and may contain single spaces between the first and last character."))
    ELSE SecretRejection(message, NativeError("TypeError", "Secret was not a string"))

\* The candidate secrets: every string up to the bound, and values of other types.
SecretInputs ==
    {Str(chars) : chars \in SeqsUpTo(Alphabet, MaxSecretLen)} \cup {Undefined, Null, Num(1)}

\* No checkSecret call has been made.
SecretIdle == secretCall = [secret |-> Undefined, result |-> NotCalled]

\* The candidate is chosen; checkSecret has not been called on it yet.
SecretChosen ==
    \E secret \in SecretInputs : secretCall = [secret |-> secret, result |-> NotCalled]

\* The call checkSecret(secret) with the default message.
CheckSecret ==
    /\ secretCall.result = NotCalled
    /\ secretCall' = [secretCall EXCEPT
                        !.result = checkSecret(secretCall.secret, "Invalid secret")]
    /\ UNCHANGED <<taskVars, serviceVars, constructionVars, sessionModuleVars,
                   allocationVars>>

-----------------------------------------------------------------------------
(* The in-memory api service: property access *)

\* The names every object inherits from Object.prototype (the one the
\* identifiers of the model include).
ObjectPrototypeNames == {"constructor"}

\* What reading an inherited name yields: a function object.
InheritedFunction == [type |-> "function"]

\* key in store, for #users, #sessions and #content: own and inherited names.
HasKey(store, key) == key \in DOMAIN store \/ key \in ObjectPrototypeNames

\* store[key]
GetKey(store, key) ==
    IF key \in DOMAIN store THEN store[key]
    ELSE IF key \in ObjectPrototypeNames THEN InheritedFunction
    ELSE Undefined

\* store[key] = value
SetKey(store, key, value) ==
    [k \in DOMAIN store \cup {key} |-> IF k = key THEN value ELSE store[k]]

\* The property names of the indices of an array.
IndexNames == <<"0", "1", "2">>

\* key in value, for an array or a function object.
In(key, value) ==
    CASE value.type = "array" ->
            \/ \E i \in 1 .. Len(value.items) : IndexNames[i] = key
            \/ key = "length"
            \/ key \in ObjectPrototypeNames
      [] value.type = "function" ->
            key \in {"length", "name", "prototype"} \cup ObjectPrototypeNames

\* value[key], for an array or a function object.
Get(value, key) ==
    IF value.type = "array" /\ \E i \in 1 .. Len(value.items) : IndexNames[i] = key
    THEN value.items[CHOOSE i \in 1 .. Len(value.items) : IndexNames[i] = key]
    ELSE IF key = "length" THEN Num(IF value.type = "array" THEN Len(value.items) ELSE 1)
    ELSE IF key = "name" THEN IdStr("Object")
    ELSE InheritedFunction

\* value.expires of a value that is neither null nor undefined.
Expires(value) == IF value.type = "object" THEN value.expires ELSE Undefined

\* value.content of a value that is neither null nor undefined.
Content(value) ==
    IF value.type = "object" /\ "content" \in DOMAIN value THEN value.content ELSE Undefined

\* value == null
IsNullish(value) == value.type \in {"undefined", "null"}

\* String(!userId): the left operand of "in" in (!userId in this.#users).
NotAsKey(userId) == IF userId = "" THEN "true" ELSE "false"

\* The property key a value is converted to: a promise becomes "[object Promise]".
PropertyKey(value) ==
    IF value.type = "Promise" THEN "[object Promise]" ELSE value.text

-----------------------------------------------------------------------------
(* The in-memory api service: its methods *)

\* What the global name crypto is bound to where the module runs: the Web
\* Crypto object (randomUUID, no randomBytes), the node crypto module, or
\* nothing.  The module imports none of them.
CryptoEnvs == {"webcrypto", "node", "none"}

\* _createId(): the method declares no parameter, so reading idCollection is
\* a ReferenceError, which the try block turns into a rejection.
_createId(env) ==
    IF env = "none" THEN Rejected(NativeError("ReferenceError", "crypto is not defined"))
    ELSE Rejected(NativeError("ReferenceError", "idCollection is not defined"))

\* createHashedSecret(password) with the default crypt options (method pbkdf2):
\* crypto.randomBytes is missing, or the undeclared salt is read.
createHashedSecret(password, env) ==
    CASE env = "none" -> Rejected(NativeError("ReferenceError", "crypto is not defined"))
      [] env = "webcrypto" ->
            Rejected(NativeError("TypeError", "crypto.randomBytes is not a function"))
      [] env = "node" -> Rejected(NativeError("ReferenceError", "salt is not defined"))

\* validPassword(user, secret): #users is an object and has no find method,
\* so the first statement throws before any promise is made.
validPassword(user, secret) ==
    Thrown(NativeError("TypeError", "this.#users.find is not a function"))

\* getAvailableContent(sessionId, userId, contentId): the promise it returns.
\* An error thrown inside the executor rejects the promise.
getAvailableContent(sessionId, userId, contentId) ==
    LET user == GetKey(users, userId)
        session == GetKey(sessions, sessionId)
        entries == GetKey(content, userId)
    IN
    IF HasKey(users, NotAsKey(userId)) THEN
        Rejected(AccessForbiddenException("User cannot access the content", Undefined, Undefined))
    ELSE IF IsNullish(user) THEN
        Rejected(NativeError("TypeError", "Cannot read properties of undefined"))
    ELSE IF ~IsNullish(Expires(user)) /\ Expires(user).n <= now THEN
        Rejected(AccessForbiddenException("User cannot access the content", Undefined, Undefined))
    ELSE IF ~HasKey(sessions, sessionId) THEN
        Rejected(AuthenticationRequiredException("User authentication required", Undefined,
                                                 IdStr(userId)))
    ELSE IF IsNullish(session) THEN
        Rejected(NativeError("TypeError", "Cannot read properties of null"))
    ELSE IF ~(IsNullish(Expires(session)) \/ Expires(session).n > now) THEN
        Rejected(AuthenticationRequiredException("User authentication required", Undefined,
                                                 IdStr(userId)))
    ELSE IF ~(session.type = "object" /\ session.userId = userId) THEN
        Rejected(HttpStatusException("Bad request", Undefined, Undefined, Undefined))
    ELSE IF HasKey(content, userId) /\ In(contentId, entries) THEN
        Resolved(Content(Get(entries, contentId)))
    ELSE
        Rejected(NotFoundException("The resource does not exists", Undefined,
                                   Array(<<IdStr(userId), IdStr(contentId)>>)))

\* checkSessionTimeOut(timeOut), for the values the constructor is given.
checkSessionTimeOut(timeOut) ==
    IF IsNullish(timeOut) \/ timeOut = Num(0) THEN Null ELSE timeOut

\* createSession(userId): the new stores, the key the session was committed
\* under (undefined when nothing was committed) and the returned promise.
\* sessionId is the promise _createId returned, not its value, so the key is
\* the text of a promise; the assignment to the undeclared secret is a
\* ReferenceError after the null placeholder is stored.
createSession(userId, env) ==
    IF HasKey(users, userId) THEN
        LET sessionId == PromiseObject(_createId(env))
        IN  [sessions |-> SetKey(sessions, PropertyKey(sessionId), Null),
             reservedSessionSecrets |-> reservedSessionSecrets,
             allocated |-> IdStr(PropertyKey(sessionId)),
             result |-> Rejected(NativeError("ReferenceError", "secret is not defined"))]
    ELSE
        [sessions |-> sessions,
         reservedSessionSecrets |-> reservedSessionSecrets,
         allocated |-> Undefined,
         result |-> Rejected(AccessForbiddenException("User access forbidden!", Undefined,
                                                      Undefined))]

\* updateSession as written but with new Promise(...) and without the test
\* of the session's expires against the clock: the owner's call refreshes the
\* session whatever its expires.
updateSession_NoExpiryCheck(sessionId, userId, sessionDetail) ==
    IF sessionId \in DOMAIN sessions /\ sessions[sessionId].type = "object"
       /\ sessions[sessionId].userId = userId
    THEN LET updated ==
                 [sessions[sessionId] EXCEPT
                    !.expires = IF sessionTimeOut = Null THEN Null
                                ELSE Num(now + sessionTimeOut.n)]
         IN  [sessions |-> SetKey(sessions, sessionId, updated), result |-> Resolved(updated)]
    ELSE [sessions |-> sessions,
          result |-> Rejected(NotFoundException("Session not found", Undefined, Undefined))]

\* updateSession(sessionId, userId, sessionDetail): the store of sessions after
\* the call and how the call ended.  Promise is called without new, which
\* throws a TypeError; the executor never runs.
updateSession(sessionId, userId, sessionDetail) ==
    [sessions |-> sessions,
     result |-> Thrown(NativeError("TypeError",
                                   "Promise constructor cannot be invoked without 'new'"))]

\* closeSession without its test of the close time against the clock: every
\* call goes on to checkSessionId.
closeSession_NoFutureCheck(sessionId, closeTime) ==
    [sessions |-> sessions,
     result |-> Rejected(NativeError("TypeError", "this.checkSessionId is not a function"))]

\* closeSession with a checkSessionId that resolves with the id, and a commit
\* that removes the session from the store instead of setting its expires.
closeSession_Deletes(sessionId, closeTime) ==
    IF ~IsNullish(closeTime) /\ closeTime.n > now THEN
        [sessions |-> sessions,
         result |-> Rejected(InvalidParameterException("closeTime", closeTime,
                                                       "Close time in future", Undefined))]
    ELSE IF sessionId \in DOMAIN sessions THEN
        [sessions |-> [k \in DOMAIN sessions \ {sessionId} |-> sessions[k]],
         result |-> Resolved(Undefined)]
    ELSE [sessions |-> sessions,
          result |-> Rejected(NotFoundException("Session not found", Undefined, Undefined))]

\* closeSession with a checkSessionId that resolves with the id, and a commit
\* that sets the expires of every stored session, not of the one named.
closeSession_ClosesEverySession(sessionId, closeTime) ==
    IF ~IsNullish(closeTime) /\ closeTime.n > now THEN
        [sessions |-> sessions,
         result |-> Rejected(InvalidParameterException("closeTime", closeTime,
                                                       "Close time in future", Undefined))]
    ELSE IF sessionId \in DOMAIN sessions /\ sessions[sessionId].type = "object" THEN
        [sessions |->
            [k \in DOMAIN sessions |->
                IF sessions[k].type = "object" THEN
                    [sessions[k] EXCEPT
                       !.expires = IF IsNullish(closeTime) THEN Num(now) ELSE closeTime]
                ELSE sessions[k]],
         result |-> Resolved(Undefined)]
    ELSE [sessions |-> sessions,
          result |-> Rejected(NotFoundException("Session not found", Undefined, Undefined))]

\* closeSession with a checkSessionId that resolves with the id: the callback
\* of the code as written runs and sets the expires of an active session to
\* the close time.
closeSession_Commits(sessionId, closeTime) ==
    LET closed == IF IsNullish(closeTime) THEN Num(now) ELSE closeTime
    IN  IF ~IsNullish(closeTime) /\ closeTime.n > now THEN
            [sessions |-> sessions,
             result |-> Rejected(InvalidParameterException("closeTime", closeTime,
                                                           "Close time in future", Undefined))]
        ELSE IF sessionId \in DOMAIN sessions /\ sessions[sessionId].type = "object" THEN
            [sessions |->
                IF IsNullish(sessions[sessionId].expires)
                   \/ sessions[sessionId].expires.n > closed.n
                THEN SetKey(sessions, sessionId, [sessions[sessionId] EXCEPT !.expires = closed])
                ELSE sessions,
             result |-> Resolved(Undefined)]
        ELSE [sessions |-> sessions,
              result |-> Rejected(NotFoundException("Session not found", Undefined,
                                                    Undefined))]

\* closeSession(sessionId, closeTime): the store of sessions after the call and
\* the returned promise.  The method is async, so a throw rejects the promise;
\* the class has no checkSessionId method, and the callback that would set the
\* session's expires never runs.
closeSession(sessionId, closeTime) ==
    IF ~IsNullish(closeTime) /\ closeTime.n > now THEN
        [sessions |-> sessions,
         result |-> Rejected(InvalidParameterException("closeTime", closeTime,
                                                       "Close time in future", Undefined))]
    ELSE [sessions |-> sessions,
          result |-> Rejected(NativeError("TypeError",
                                          "this.checkSessionId is not a function"))]

\* The white space characters trim() removes.
IsWhiteSpace(c) == Category(c) \in {"Zs", "Cc"}

\* validUserName(userName)
validUserName(userName) ==
    /\ TypeOf(userName) = "string"
    /\ Len(userName.chars) > 0
    /\ ~IsWhiteSpace(userName.chars[1])
    /\ ~IsWhiteSpace(userName.chars[Len(userName.chars)])

\* createUser with a hashing that succeeds and a checkUserName that returns
\* the valid name: the record is stored under a new id, and the names already
\* stored are not looked at.
createUser_Stores(userName, secret, userInfo, expiration, env) ==
    LET checked == checkSecret(secret, "Invalid secret")
    IN  IF checked.state = "resolved" /\ validUserName(userName) THEN
            [users |-> SetKey(users, "u3",
                              [type |-> "object", userName |-> userName,
                               expires |-> DefaultTo(expiration, Null)]),
             result |-> Resolved(userInfo)]
        ELSE [users |-> users,
              result |-> Rejected(InvalidParameterException("Username or password", Undefined,
                             "Invalid username or secret", checked.value))]

\* createUser(userName, secret, userInfo, expiration): the store of users
\* after the call and the returned promise.  The store is written only after
\* createHashedSecret resolves, and there checkUserName throws a
\* ReferenceError (message is undeclared) before the record is assigned,
\* inside a callback whose promise nobody observes: the returned promise
\* stays pending.
createUser(userName, secret, userInfo, expiration, env) ==
    LET checked == checkSecret(secret, "Invalid secret")
    IN  IF checked.state = "resolved" THEN
            LET hashed == createHashedSecret(checked.value, env)
            IN  IF hashed.state = "resolved" THEN [users |-> users, result |-> Pending]
                ELSE [users |-> users,
                      result |-> Rejected(InvalidParameterException("userName or password",
                                     Undefined, "Invalid username or password", hashed.value))]
        ELSE [users |-> users,
              result |-> Rejected(InvalidParameterException("Username or password", Undefined,
                             "Invalid username or secret", checked.value))]

\* getContents(userId, filter): the class has no validId method.
getContents(userId) ==
    Rejected(NativeError("TypeError", "this.validId is not a function"))

\* getContent(userId, contentId, message): the rejection of getContents passes
\* through then().
getContent(userId, contentId) == getContents(userId)

\* validNewContent(content)
validNewContent(newContent) == TypeOf(newContent) = "object" /\ newContent # Null

\* The identifiers createContentId hands to _createId as the reserved ones:
\* Object.getOwnPropertyNames(this.#content), the names of the content store.
ReservedContentIds == DOMAIN content

\* createContentId(): _createId declares no parameter, so the reserved
\* identifiers handed to it are dropped.
createContentId(env) == _createId(env)

\* createContentEntry(newContent)
createContentEntry(newContent, env) ==
    IF validNewContent(newContent) THEN
        LET id == createContentId(env)
        IN  IF id.state = "resolved"
            THEN Resolved([type |-> "object", id |-> id.value, content |-> newContent])
            ELSE Rejected(HttpStatusException("Could not generate identifier", id.value,
                                              Num(500), Undefined))
    ELSE Rejected(InvalidParameterException("newContent", newContent, "Invalid new content",
                                            Undefined))

\* createContent(userId, content): the class has no validId method.
createContent(userId, newContent) ==
    Rejected(NativeError("TypeError", "this.validId is not a function"))

-----------------------------------------------------------------------------
(* The in-memory api service: construction *)

\* A user record, a session record and a content entry as the constructor's
\* parameters hand them over.
UserRecord(userName, expires) ==
    [type |-> "object", userName |-> userName, expires |-> expires]

SessionRecord(userId, expires) ==
    [type |-> "object", userId |-> userId, created |-> Num(0), expires |-> expires]

Entry(id, title) ==
    [type |-> "object", id |-> id, content |-> [type |-> "object", title |-> title]]

\* The parameters the service is constructed with.  Two users hold an entry
\* with the same content id "c1"; the user "u2" expires at time 1 and the
\* session "s1" may; the user "/Ok/u" has a name that is a valid status
\* message; the time out is 0 (none) or 2.
ServiceParams ==
    { [content |-> ("u1" :> Array(<<Entry("c1", "first of u1"), Entry("c2", "second of u1")>>)
                    @@ "u2" :> Array(<<Entry("c1", "first of u2")>>)),
       users |-> ("u1" :> UserRecord(Str(<<"a">>), Null)
                  @@ "u2" :> UserRecord(Str(<<"A">>), Num(1))
                  @@ "/Ok/u" :> UserRecord(Str(<<"1">>), Null)),
       sessions |-> ("s1" :> SessionRecord("u1", s1Expires)
                     @@ "s2" :> SessionRecord("u2", Num(2))),
       sessionTimeout |-> timeOut] :
      s1Expires \in {Null, Num(1)}, timeOut \in {Num(0), Num(2)} }

\* No call has been made to the service.
NoCall ==
    [op |-> "none", args |-> [none |-> Undefined], now |-> 0, result |-> NotCalled,
     allocated |-> Undefined]

\* new InMemoryApiService(param), with the clock at 0.
Constructed(param) ==
    /\ content = param.content
    /\ users = param.users
    /\ sessions = param.sessions
    /\ sessionTimeOut = checkSessionTimeOut(param.sessionTimeout)
    /\ reservedSessionSecrets = <<>>
    /\ now = 0
    /\ call = NoCall

\* The service as constructed from one fixed parameter, no call made.
ServiceIdle ==
    Constructed(CHOOSE param \in ServiceParams :
                    /\ param.sessions["s1"].expires = Null
                    /\ param.sessionTimeout = Num(0))

-----------------------------------------------------------------------------
(* The in-memory api service: construction with crypt options *)

\* A property an object literal does not have.
Absent == [type |-> "absent"]

\* property in object, for the own properties of an object literal.
Has(object, property) == object[property] # Absent

\* A call that returned the value (a constructor or a synchronous method).
Returned(v) == [state |-> "returned", value |-> v]

\* The initial value of the field #cryptOptions.
DefaultCryptOptions ==
    [type |-> "object", algorithm |-> IdStr("sha512"), length |-> Num(64),
     method |-> IdStr("pbkdf2"), saltLength |-> Absent, rounds |-> Num(200000)]

\* value / 2 of a number: a whole number, or the fraction it leaves.
HalfOf(value) ==
    IF value.n % 2 = 0 THEN Num(value.n \div 2)
    ELSE [type |-> "number", numerator |-> value.n, denominator |-> 2]

\* typeof value === "string" && value.length > 0
ValidCryptText(value) == value.type = "string" /\ value.text # ""

\* typeof value === "number" && Number.isSafeInteger(value) && value > 0
ValidCryptNumber(value) == value.type = "number" /\ "n" \in DOMAIN value /\ value.n > 0

\* The validator checkCryptOptions applies to the property.
ValidCryptProperty(property, value) ==
    IF property \in {"algorithm", "method"} THEN ValidCryptText(value)
    ELSE ValidCryptNumber(value)

\* checkCryptOptions(cryptOptions, defaults).  The first of algorithm, length
\* and method that cryptOptions has ends the call: an invalid value with an
\* InvalidParameterException, a valid one with a ReferenceError, because the
\* assignment result[property] = value reads an undeclared name.  With none of
\* them the second loop validates saltLength and rounds; the result it fills
\* is a local that is never returned, so the call returns undefined.
checkCryptOptions(cryptOptions, defaults) ==
    LET first == <<"algorithm", "length", "method">>
        second == <<"saltLength", "rounds">>
        present(props) == {i \in DOMAIN props : Has(cryptOptions, props[i])}
        firstOf(props) == props[CHOOSE i \in present(props) :
                                    \A j \in present(props) : i <= j]
        invalid(props) ==
            {i \in present(props) : ~ValidCryptProperty(props[i], cryptOptions[props[i]])}
        firstInvalid(props) == props[CHOOSE i \in invalid(props) :
                                         \A j \in invalid(props) : i <= j]
    IN  IF present(first) # {} THEN
            IF ValidCryptProperty(firstOf(first), cryptOptions[firstOf(first)])
            THEN Thrown(NativeError("ReferenceError", "value is not defined"))
            ELSE Thrown(InvalidParameterException(firstOf(first), Undefined,
                            "Invalid crypto property value", Undefined))
        ELSE IF invalid(second) # {} THEN
            Thrown(InvalidParameterException(firstInvalid(second),
                       cryptOptions[firstInvalid(second)],
                       "Invalid crypto property value", Undefined))
        ELSE Returned(Undefined)

\* new InMemoryApiService(param), for a param that is undefined or has at most
\* the property cryptOptions: the error the constructor throws, or the crypt
\* options of the service constructed.
NewInMemoryApiService(param) ==
    IF param = Undefined THEN
        Thrown(NativeError("TypeError", "Cannot use 'in' operator to search for 'content' in undefined"))
    ELSE IF Has(param, "cryptOptions") THEN
        LET checked == checkCryptOptions(param.cryptOptions, DefaultCryptOptions)
        IN  IF checked.state = "thrown" THEN checked
            ELSE Returned([cryptOptions |-> checked.value])
    ELSE Returned([cryptOptions |-> DefaultCryptOptions])

\* The crypt options the service is constructed with.
CryptOptionArgs ==
    [type : {"object"},
     algorithm : {Absent, IdStr("sha1"), IdStr("")},
     length : {Absent, Num(1), Num(2), Num(0)},
     method : {Absent, IdStr("pbkdf2"), IdStr("")},
     saltLength : {Absent, Num(1), Num(0)},
     rounds : {Absent, Num(2), Num(0)}]

\* The parameters the service is constructed with: undefined, {} and
\* {cryptOptions}.
ConstructionParams ==
    {Undefined, [type |-> "object", cryptOptions |-> Absent]}
        \cup {[type |-> "object", cryptOptions |-> options] : options \in CryptOptionArgs}

\* The parameter is chosen; the constructor has not been called on it yet.
ConstructionChosen ==
    \E param \in ConstructionParams : construction = [param |-> param, result |-> NotCalled]

-----------------------------------------------------------------------------
(* The session module *)

\* The object literal both functions of the module build.
SessionObject(created, updated, expires, timeOutMs, data) ==
    [type |-> "object", _created |-> created, _updated |-> updated, _expires |-> expires,
     _timeOutMs |-> timeOutMs, _data |-> data]

\* get created()
Session_created(object) == object._created

\* get updated()
Session_updated(object) == object._updated

\* get expires(): derived from _updated and _timeOutMs when _expires is unset.
Session_expires(object) ==
    IF IsNullish(object._expires) /\ ~IsNullish(object._timeOutMs)
    THEN Num(object._updated.n + object._timeOutMs.n)
    ELSE object._expires

\* get active(), read with the clock at time.
Session_active(object, time) ==
    IsNullish(Session_expires(object)) \/ Session_expires(object).n > time

\* session.timeOutMs: the object has _timeOutMs and no property timeOutMs.
Session_timeOutMs(object) == Undefined

\* createSession(params) of the session module, with the clock at time:
\* params.timeOutMs || undefined turns a time out of 0 into undefined.
Session_createSession(params, time) ==
    Resolved(SessionObject(Num(time), Num(time), params.expires,
                           IF params.timeOutMs.type = "number" /\ params.timeOutMs.n # 0
                           THEN params.timeOutMs ELSE Undefined,
                           params.data))

\* updateSession(session, data, updated) of the session module, with the clock
\* at time: a data that is null or undefined reads the undeclared source, and
\* the function is not async, so the ReferenceError is thrown to the caller.
Session_updateSession(object, data, updated, time) ==
    IF IsNullish(data) THEN Thrown(NativeError("ReferenceError", "source is not defined"))
    ELSE Resolved(SessionObject(Session_created(object), DefaultTo(updated, Num(time)),
                                Session_expires(object), Session_timeOutMs(object), data))

\* The parameters sessions are created with and the arguments of updates.
SessionParamArgs ==
    [type : {"object"}, expires : {Undefined, Num(1)},
     timeOutMs : {Undefined, Num(0), Num(1), Num(2)}, data : {Undefined, IdStr("d")}]

SessionDataArgs == {Undefined, IdStr("e")}

SessionUpdatedArgs == {Undefined} \cup {Num(t) : t \in 0 .. MaxTime}

-----------------------------------------------------------------------------
(* The identifier allocation loops *)

\* The identifiers crypto.randomUUID() draws from: stored ones and unused ones.
IdPool == {"s1", "s2", "u1", "n1", "n2"}

\* The store whose keys the loop of the operation tests the candidate against:
\* #sessions in createSession of apiServices.mjs, #users in createUser.
AllocationStore(op) == IF op = "createSession" THEN sessions ELSE users

\* The loop condition: (sessionId in this.#sessions), (id in this.#users).
AllocationCollides(op, candidate) == HasKey(AllocationStore(op), candidate)

\* One run of the loop body on a colliding candidate.  The body of the loop of
\* createSession in apiServices.mjs is empty; the body of the loop of
\* createUser assigns a new crypto.randomUUID() to the candidate.
AllocationLoopBody(loop, drawn) ==
    IF loop.op = "createSession"
    THEN [loop EXCEPT !.iterations = @ + 1]
    ELSE [loop EXCEPT !.candidate = drawn, !.draws = @ + 1, !.iterations = @ + 1]

-----------------------------------------------------------------------------
(* The components no call has been made to *)

\* No service has been constructed from a parameter of its own.
ConstructionIdle == construction = [param |-> Undefined, result |-> NotCalled]

\* No call has been made to the session module.
SessionModuleIdle ==
    moduleSession = [op |-> "none", params |-> Undefined, updated |-> Undefined,
                     object |-> Undefined, result |-> NotCalled]

\* No identifier allocation has been started.
AllocationIdle ==
    allocation = [op |-> "none", pc |-> "idle", candidate |-> "", draws |-> 0,
                  iterations |-> 0]

-----------------------------------------------------------------------------
(* The task operations as actions *)

\* No composite has been built over members yet.
TaskIdle ==
    /\ linkedTask = createCompleteAllTask("x", <<>>)
    /\ blockingTask = createCompleteAllStepsBlockingTask("z", <<>>, <<>>)

TaskInit ==
    /\ taskDone \in [TaskNames -> BOOLEAN]
    /\ TaskIdle
    /\ SecretIdle
    /\ ServiceIdle
    /\ ConstructionIdle
    /\ SessionModuleIdle
    /\ AllocationIdle

\* task.done = value on a mutable member task.
SetDone ==
    \E t \in TaskNames, v \in BOOLEAN :
        /\ taskDone' = [taskDone EXCEPT ![t] = createSimpleTask(t, v).done]
        /\ UNCHANGED <<linkedTask, blockingTask, secretVars, serviceVars,
                     constructionVars, sessionModuleVars, allocationVars>>

CreateCompleteAllTask ==
    \E ms \in MemberLists :
        /\ linkedTask' = createCompleteAllTask("x", ms)
        /\ UNCHANGED <<taskDone, blockingTask, secretVars, serviceVars,
                     constructionVars, sessionModuleVars, allocationVars>>

CreateCompleteAnyTask ==
    \E ms \in MemberLists :
        /\ linkedTask' = createCompleteAnyTask("y", ms)
        /\ UNCHANGED <<taskDone, blockingTask, secretVars, serviceVars,
                     constructionVars, sessionModuleVars, allocationVars>>

CreateCompleteAllStepsBlockingTask ==
    \E cs \in MemberLists, bs \in MemberLists :
        /\ blockingTask' = createCompleteAllStepsBlockingTask("z", cs, bs)
        /\ UNCHANGED <<taskDone, linkedTask, secretVars, serviceVars,
                     constructionVars, sessionModuleVars, allocationVars>>

TaskNext ==
    \/ SetDone
    \/ CreateCompleteAllTask
    \/ CreateCompleteAnyTask
    \/ CreateCompleteAllStepsBlockingTask

\* The task model alone: the other components stay as constructed.
SpecTasks == TaskInit /\ [][TaskNext]_vars

\* The password policy alone: one candidate, one call.
SecretInit ==
    /\ SecretChosen
    /\ taskDone = [t \in TaskNames |-> FALSE]
    /\ TaskIdle
    /\ ServiceIdle
    /\ ConstructionIdle
    /\ SessionModuleIdle
    /\ AllocationIdle

SecretNext == CheckSecret

SpecSecret == SecretInit /\ [][SecretNext]_vars

-----------------------------------------------------------------------------
(* The service operations as actions *)

\* The arguments calls are made with: stored identifiers, an unknown one, the
\* text of a promise, an inherited name, an array index and "length".
SessionIdArgs == {"s1", "s2", "s0", "[object Promise]"}

UserIdArgs == {"u1", "u2", "/Ok/u", "u0", "constructor"}

ContentIdArgs == {"0", "1", "c1", "length"}

CloseTimeArgs == {Undefined, Num(-1), Num(0), Num(MaxTime + 1)}

UserNameArgs == {Str(<<"a">>), Str(<<" ", "a">>), Undefined}

SecretArgs == {Str(<<"a", "A", "1", "!">>), Str(<<"a", "1">>), Undefined}

UserInfoArgs == {Undefined, [type |-> "object", nick |-> "x"]}

NewContentArgs == {Undefined, Null, [type |-> "object", title |-> "new"]}

\* The caller made the call op(args) now and got result; allocated is the key
\* the call committed a record under, if it did.
Returns(op, args, result, allocated) ==
    call' = [op |-> op, args |-> args, now |-> now, result |-> result,
             allocated |-> allocated]

\* Date.now() advances.
Tick ==
    /\ now < MaxTime
    /\ now' = now + 1
    /\ UNCHANGED <<users, sessions, content, reservedSessionSecrets, sessionTimeOut, call,
                   taskVars, secretVars,
                       constructionVars, sessionModuleVars, allocationVars>>

GetAvailableContent ==
    \E sessionId \in SessionIdArgs, userId \in UserIdArgs, contentId \in ContentIdArgs :
        /\ Returns("getAvailableContent",
                   [sessionId |-> sessionId, userId |-> userId, contentId |-> contentId],
                   getAvailableContent(sessionId, userId, contentId), Undefined)
        /\ UNCHANGED <<users, sessions, content, reservedSessionSecrets, sessionTimeOut, now,
                       taskVars, secretVars,
                       constructionVars, sessionModuleVars, allocationVars>>

CreateSession ==
    \E userId \in UserIdArgs, env \in CryptoEnvs :
        LET outcome == createSession(userId, env)
        IN  /\ sessions' = outcome.sessions
            /\ reservedSessionSecrets' = outcome.reservedSessionSecrets
            /\ Returns("createSession", [userId |-> userId], outcome.result,
                       outcome.allocated)
            /\ UNCHANGED <<users, content, sessionTimeOut, now, taskVars, secretVars,
                       constructionVars, sessionModuleVars, allocationVars>>

UpdateSession ==
    \E sessionId \in SessionIdArgs, userId \in UserIdArgs :
        LET outcome == updateSession(sessionId, userId, Undefined)
        IN  /\ sessions' = outcome.sessions
            /\ Returns("updateSession", [sessionId |-> sessionId, userId |-> userId],
                       outcome.result, Undefined)
            /\ UNCHANGED <<users, content, reservedSessionSecrets, sessionTimeOut, now,
                           taskVars, secretVars,
                           constructionVars, sessionModuleVars, allocationVars>>

CloseSession ==
    \E sessionId \in SessionIdArgs, closeTime \in CloseTimeArgs :
        LET outcome == closeSession(sessionId, closeTime)
        IN  /\ sessions' = outcome.sessions
            /\ Returns("closeSession", [sessionId |-> sessionId, closeTime |-> closeTime],
                       outcome.result, Undefined)
            /\ UNCHANGED <<users, content, reservedSessionSecrets, sessionTimeOut, now,
                           taskVars, secretVars,
                           constructionVars, sessionModuleVars, allocationVars>>

ValidPassword ==
    \E userName \in UserNameArgs, secret \in SecretArgs :
        /\ Returns("validPassword", [userName |-> userName, secret |-> secret],
                   validPassword(userName, secret), Undefined)
        /\ UNCHANGED <<users, sessions, content, reservedSessionSecrets, sessionTimeOut, now,
                       taskVars, secretVars,
                       constructionVars, sessionModuleVars, allocationVars>>

\* createUser(userName, secret, userInfo): userInfo defaults to {}.
CreateUser ==
    \E userName \in UserNameArgs, secret \in SecretArgs, userInfo \in UserInfoArgs,
       env \in CryptoEnvs :
        LET outcome == createUser(userName, secret, DefaultTo(userInfo, [type |-> "object"]),
                                  Undefined, env)
        IN  /\ users' = outcome.users
            /\ Returns("createUser",
                       [userName |-> userName, secret |-> secret,
                        userInfo |-> DefaultTo(userInfo, [type |-> "object"])],
                       outcome.result, Undefined)
            /\ UNCHANGED <<sessions, content, reservedSessionSecrets, sessionTimeOut, now,
                           taskVars, secretVars,
                       constructionVars, sessionModuleVars, allocationVars>>

GetContents ==
    \E userId \in UserIdArgs :
        /\ Returns("getContents", [userId |-> userId], getContents(userId), Undefined)
        /\ UNCHANGED <<users, sessions, content, reservedSessionSecrets, sessionTimeOut, now,
                       taskVars, secretVars,
                       constructionVars, sessionModuleVars, allocationVars>>

GetContent ==
    \E userId \in UserIdArgs, contentId \in {"c1"} :
        /\ Returns("getContent", [userId |-> userId, contentId |-> contentId],
                   getContent(userId, contentId), Undefined)
        /\ UNCHANGED <<users, sessions, content, reservedSessionSecrets, sessionTimeOut, now,
                       taskVars, secretVars,
                       constructionVars, sessionModuleVars, allocationVars>>

CreateContentEntry ==
    \E newContent \in NewContentArgs, env \in CryptoEnvs :
        /\ Returns("createContentEntry", [newContent |-> newContent],
                   createContentEntry(newContent, env), Undefined)
        /\ UNCHANGED <<users, sessions, content, reservedSessionSecrets, sessionTimeOut, now,
                       taskVars, secretVars,
                       constructionVars, sessionModuleVars, allocationVars>>

CreateContent ==
    \E userId \in UserIdArgs, newContent \in NewContentArgs :
        /\ Returns("createContent", [userId |-> userId, newContent |-> newContent],
                   createContent(userId, newContent), Undefined)
        /\ UNCHANGED <<users, sessions, content, reservedSessionSecrets, sessionTimeOut, now,
                       taskVars, secretVars,
                       constructionVars, sessionModuleVars, allocationVars>>

ServiceInit ==
    /\ \E param \in ServiceParams : Constructed(param)
    /\ taskDone = [t \in TaskNames |-> FALSE]
    /\ TaskIdle
    /\ SecretIdle
    /\ ConstructionIdle
    /\ SessionModuleIdle
    /\ AllocationIdle

ServiceNext ==
    \/ Tick
    \/ GetAvailableContent
    \/ CreateSession
    \/ UpdateSession
    \/ CloseSession
    \/ ValidPassword
    \/ CreateUser
    \/ GetContents
    \/ GetContent
    \/ CreateContentEntry
    \/ CreateContent

\* The service alone: the other components stay as constructed.
SpecService == ServiceInit /\ [][ServiceNext]_vars

-----------------------------------------------------------------------------
(* The construction of the service as an action *)

\* new InMemoryApiService(param)
Construct ==
    /\ construction.result = NotCalled
    /\ construction' = [construction EXCEPT
                          !.result = NewInMemoryApiService(construction.param)]
    /\ UNCHANGED <<taskVars, secretVars, serviceVars, sessionModuleVars, allocationVars>>

\* The constructor alone: one parameter, one call.
ConstructionInit ==
    /\ ConstructionChosen
    /\ taskDone = [t \in TaskNames |-> FALSE]
    /\ TaskIdle
    /\ SecretIdle
    /\ ServiceIdle
    /\ SessionModuleIdle
    /\ AllocationIdle

ConstructionNext == Construct

SpecConstruction == ConstructionInit /\ [][ConstructionNext]_vars

-----------------------------------------------------------------------------
(* The session module as actions *)

\* createSession(params): the first call made to the module.
ModuleCreateSession ==
    /\ moduleSession.op = "none"
    /\ \E params \in SessionParamArgs :
          LET result == Session_createSession(params, now)
          IN  moduleSession' = [op |-> "createSession", params |-> params,
                                updated |-> Num(now), object |-> result.value,
                                result |-> result]
    /\ UNCHANGED <<taskVars, secretVars, serviceVars, constructionVars, allocationVars>>

\* updateSession(session, data, updated) on the session the module made last.
ModuleUpdateSession ==
    /\ moduleSession.op # "none"
    /\ \E data \in SessionDataArgs, updated \in SessionUpdatedArgs :
          LET result == Session_updateSession(moduleSession.object, data, updated, now)
          IN  moduleSession' = [moduleSession EXCEPT
                                  !.op = "updateSession",
                                  !.updated = DefaultTo(updated, Num(now)),
                                  !.object = IF result.state = "resolved" THEN result.value
                                             ELSE @,
                                  !.result = result]
    /\ UNCHANGED <<taskVars, secretVars, serviceVars, constructionVars, allocationVars>>

SessionModuleInit ==
    /\ SessionModuleIdle
    /\ taskDone = [t \in TaskNames |-> FALSE]
    /\ TaskIdle
    /\ SecretIdle
    /\ ServiceIdle
    /\ ConstructionIdle
    /\ AllocationIdle

SessionModuleNext ==
    \/ Tick
    \/ ModuleCreateSession
    \/ ModuleUpdateSession

SpecSessionModule == SessionModuleInit /\ [][SessionModuleNext]_vars

-----------------------------------------------------------------------------
(* The identifier allocation loops as actions *)

\* var id = crypto.randomUUID(): the first draw, before the loop.
AllocationDraw ==
    /\ allocation.pc = "idle"
    /\ \E op \in {"createSession", "createUser"}, drawn \in IdPool :
          allocation' = [op |-> op, pc |-> "loop", candidate |-> drawn, draws |-> 1,
                         iterations |-> 0]
    /\ UNCHANGED <<taskVars, secretVars, serviceVars, constructionVars, sessionModuleVars>>

\* The loop condition holds: the body runs once.
AllocationIterate ==
    /\ allocation.pc = "loop"
    /\ AllocationCollides(allocation.op, allocation.candidate)
    /\ allocation.iterations < MaxIterations
    /\ \E drawn \in IdPool : allocation' = AllocationLoopBody(allocation, drawn)
    /\ UNCHANGED <<taskVars, secretVars, serviceVars, constructionVars, sessionModuleVars>>

\* The loop condition fails: the loop is left with the candidate.
AllocationExit ==
    /\ allocation.pc = "loop"
    /\ ~AllocationCollides(allocation.op, allocation.candidate)
    /\ allocation' = [allocation EXCEPT !.pc = "done"]
    /\ UNCHANGED <<taskVars, secretVars, serviceVars, constructionVars, sessionModuleVars>>

AllocationInit ==
    /\ \E param \in ServiceParams : Constructed(param)
    /\ AllocationIdle
    /\ taskDone = [t \in TaskNames |-> FALSE]
    /\ TaskIdle
    /\ SecretIdle
    /\ ConstructionIdle
    /\ SessionModuleIdle

AllocationNext ==
    \/ AllocationDraw
    \/ AllocationIterate
    \/ AllocationExit

SpecAllocation == AllocationInit /\ [][AllocationNext]_vars

-----------------------------------------------------------------------------
(* Claims about the service *)

\* C1: every id allocation of createUser and createSession commits its record
\* under an id that is not among the ids stored in its id space when the call
\* is made, so no two stored records come to share an id.
C1_AllocatedIdsAreFresh ==
    [][(now' = now /\ call'.op \in {"createUser", "createSession"}
        /\ call'.allocated # Undefined)
       => /\ call'.op = "createSession" => call'.allocated.text \notin DOMAIN sessions
          /\ call'.op = "createUser" => call'.allocated.text \notin DOMAIN users]_vars

\* The value is the content of an entry stored under userId.
IsContentOf(userId, value) ==
    /\ userId \in DOMAIN content
    /\ \E i \in 1 .. Len(content[userId].items) : content[userId].items[i].content = value

\* C2: whenever getAvailableContent(sessionId, userId, contentId) succeeds, the
\* session sessionId is owned by userId and the value returned is the content
\* of an entry stored under userId (never content stored under another user).
C2_ContentIsolation ==
    [][(now' = now /\ call'.op = "getAvailableContent" /\ call'.result.state = "resolved")
       => /\ call'.args.sessionId \in DOMAIN sessions
          /\ sessions[call'.args.sessionId].type = "object"
          /\ sessions[call'.args.sessionId].userId = call'.args.userId
          /\ IsContentOf(call'.args.userId, call'.result.value)]_vars

\* The call args names a stored session and the user that owns it.
ByOwner(args) ==
    /\ args.sessionId \in DOMAIN sessions
    /\ sessions[args.sessionId].type = "object"
    /\ sessions[args.sessionId].userId = args.userId

\* C3: with a time out T > 0, updateSession by the owner at a time strictly
\* before the session's expires succeeds, returns the updated record, and
\* leaves the stored session with updated = now and expires = now + T.
C3_UpdateSessionRefreshes ==
    [][(now' = now /\ call'.op = "updateSession" /\ sessionTimeOut # Null
        /\ ByOwner(call'.args)
        /\ sessions[call'.args.sessionId].expires # Null
        /\ now < sessions[call'.args.sessionId].expires.n)
       => /\ call'.result.state = "resolved"
          /\ call'.result.value = sessions'[call'.args.sessionId]
          /\ sessions'[call'.args.sessionId].updated = Num(now)
          /\ sessions'[call'.args.sessionId].expires = Num(now + sessionTimeOut.n)]_vars

\* C4: updateSession by the owner on a session whose expires is not null and
\* not after the current time fails with AuthenticationRequiredException and
\* leaves the stored sessions unchanged.
C4_UpdateExpiredSessionFails ==
    [][(now' = now /\ call'.op = "updateSession" /\ ByOwner(call'.args)
        /\ sessions[call'.args.sessionId].expires # Null
        /\ sessions[call'.args.sessionId].expires.n <= now)
       => /\ call'.result.state \in {"rejected", "thrown"}
          /\ call'.result.value.name = "AuthenticationRequiredException"
          /\ sessions' = sessions]_vars

\* The close time of the call is not after the time the call was made at.
CloseTimeNotInFuture(closeTime, time) == IsNullish(closeTime) \/ closeTime.n <= time

\* C5: a closeSession that follows a closeSession on the same existing session
\* completes without error and leaves the session's expires as it was.
C5_CloseSessionIdempotent ==
    [][(now' = now /\ call.op = "closeSession" /\ call'.op = "closeSession"
        /\ call'.args.sessionId = call.args.sessionId
        /\ call.args.sessionId \in DOMAIN sessions
        /\ sessions[call.args.sessionId].type = "object"
        /\ CloseTimeNotInFuture(call.args.closeTime, call.now)
        /\ CloseTimeNotInFuture(call'.args.closeTime, now))
       => /\ call'.result.state = "resolved"
          /\ sessions'[call.args.sessionId].expires
                = sessions[call.args.sessionId].expires]_vars

\* The user name is valid and the secret is one checkSecret accepts.
ValidRegistration(args) ==
    /\ validUserName(args.userName)
    /\ checkSecret(args.secret, "Invalid secret").state = "resolved"

\* C6: createUser with a valid user name and an accepted secret succeeds, and
\* a validPassword with the same user name and secret that follows it succeeds
\* and yields the userInfo given to createUser.
C6_RegisterVerifyRoundTrip ==
    [][/\ (now' = now /\ call'.op = "createUser" /\ ValidRegistration(call'.args))
            => call'.result = Resolved(call'.args.userInfo)
       /\ (now' = now /\ call.op = "createUser" /\ ValidRegistration(call.args)
           /\ call'.op = "validPassword"
           /\ call'.args.userName = call.args.userName
           /\ call'.args.secret = call.args.secret)
            => call'.result = Resolved(call.args.userInfo)]_vars

-----------------------------------------------------------------------------
(* Claims about how the service fails *)

\* The core operations of the service.
CoreOps ==
    {"createUser", "validPassword", "createSession", "updateSession", "closeSession",
     "createContent", "getContents", "getContent", "getAvailableContent"}

\* The typed kinds of failure.
TypedKinds ==
    {"InvalidParameterException", "NotFoundException", "AuthenticationRequiredException",
     "AccessForbiddenException", "BadRequestException"}

\* The call ended in a failure: a rejection or a throw.
Failed(c) == c.result.state \in {"rejected", "thrown"}

\* The call failed with the exception class called name.
FailedWith(c, name) == Failed(c) /\ c.result.value.name = name

\* C11: every failure of a core operation is one of the typed kinds, never a
\* TypeError, ReferenceError, SyntaxError or bare HttpStatusException.
C11_FailuresAreTyped ==
    (call.op \in CoreOps /\ Failed(call)) => call.result.value.name \in TypedKinds

\* C12: no core operation throws synchronously: whatever the arguments, the
\* call returns a promise and a failure is the rejection of that promise.
C12_NoSynchronousThrow ==
    call.op \in CoreOps => call.result.state # "thrown"

\* C13: every started core operation settles: the promise it returned is
\* resolved with a result or rejected with an error, and is not left pending.
C13_EveryCallSettles ==
    call.op \in CoreOps => call.result.state \in {"resolved", "rejected"}

\* C14: createSession with a userId that is not the id of a stored user fails
\* with AccessForbiddenException and adds no session.
C14_UnknownUserGetsNoSession ==
    [][(now' = now /\ call'.op = "createSession"
        /\ call'.args.userId \notin DOMAIN users)
       => /\ FailedWith(call', "AccessForbiddenException")
          /\ sessions' = sessions]_vars

\* The session named by args is stored and has no expiry.
NeverExpires(args) ==
    /\ args.sessionId \in DOMAIN sessions
    /\ sessions[args.sessionId].type = "object"
    /\ sessions[args.sessionId].expires = Null

C16_UpdateSessionRejectsStrangers ==
    [][/\ (now' = now /\ call'.op = "updateSession"
           /\ call'.args.sessionId \notin DOMAIN sessions)
            => FailedWith(call', "NotFoundException") /\ sessions' = sessions
       /\ (now' = now /\ call'.op = "updateSession"
           /\ call'.args.sessionId \in DOMAIN sessions
           /\ sessions[call'.args.sessionId].type = "object"
           /\ sessions[call'.args.sessionId].userId # call'.args.userId)
            => FailedWith(call', "BadRequestException") /\ sessions' = sessions]_vars

\* C17: closeSession with a closeTime later than the current time fails with
\* InvalidParameterException and changes no session, whether or not the
\* session exists.
C17_FutureCloseTimeRejected ==
    [][(now' = now /\ call'.op = "closeSession"
        /\ ~IsNullish(call'.args.closeTime) /\ call'.args.closeTime.n > now)
       => /\ call'.result.state = "rejected"
          /\ call'.result.value.name = "InvalidParameterException"
          /\ sessions' = sessions]_vars

\* closeSession was called on a stored session with a closeTime after the
\* time of the call, and the call was rejected.
C17_FutureCloseTimeCalled ==
    /\ call.op = "closeSession"
    /\ call.args.sessionId \in DOMAIN sessions
    /\ ~IsNullish(call.args.closeTime) /\ call.args.closeTime.n > call.now
    /\ call.result.state = "rejected"

\* The time closeSession closes at: closeTime, or the clock when it is omitted.
EffectiveCloseTime(closeTime, time) == IF IsNullish(closeTime) THEN time ELSE closeTime.n

\* C18: closeSession on a stored session that is still active at closeTime
\* completes and sets the session's expires to closeTime; an updateSession or
\* getAvailableContent by the owner that follows it fails with
\* AuthenticationRequiredException.
C18_CloseSessionExpiresSession ==
    [][/\ (now' = now /\ call'.op = "closeSession"
           /\ CloseTimeNotInFuture(call'.args.closeTime, now)
           /\ call'.args.sessionId \in DOMAIN sessions
           /\ sessions[call'.args.sessionId].type = "object"
           /\ (sessions[call'.args.sessionId].expires = Null
               \/ sessions[call'.args.sessionId].expires.n
                    > EffectiveCloseTime(call'.args.closeTime, now)))
            => /\ call'.result.state = "resolved"
               /\ sessions'[call'.args.sessionId].expires
                    = Num(EffectiveCloseTime(call'.args.closeTime, now))
       /\ (now' = now /\ call.op = "closeSession" /\ call.result.state = "resolved"
           /\ call'.op \in {"updateSession", "getAvailableContent"}
           /\ call'.args.sessionId = call.args.sessionId
           /\ ByOwner(call'.args))
            => FailedWith(call', "AuthenticationRequiredException")]_vars

\* The user is not stored, or its expires is at or before the clock.
UserUnknownOrExpired(userId) ==
    \/ userId \notin DOMAIN users
    \/ (users[userId].expires # Null /\ users[userId].expires.n <= now)

\* The session is not stored, or its expires is at or before the clock.
SessionUnknownOrExpired(sessionId) ==
    \/ sessionId \notin DOMAIN sessions
    \/ /\ sessions[sessionId].type = "object"
       /\ sessions[sessionId].expires # Null
       /\ sessions[sessionId].expires.n <= now

\* C19: getAvailableContent fails with AccessForbiddenException when the user
\* is unknown or expired, and otherwise with AuthenticationRequiredException
\* when the session is unknown or expired.
C19_UserThenSessionCheck ==
    [][(now' = now /\ call'.op = "getAvailableContent")
       => /\ UserUnknownOrExpired(call'.args.userId)
                => FailedWith(call', "AccessForbiddenException")
          /\ (~UserUnknownOrExpired(call'.args.userId)
              /\ SessionUnknownOrExpired(call'.args.sessionId))
                => FailedWith(call', "AuthenticationRequiredException")]_vars

\* C20: getAvailableContent with a stored, unexpired session owned by another
\* user than the stored, unexpired userId fails with BadRequestException,
\* status code 400.
C20_ForeignSessionIsBadRequest ==
    [][(now' = now /\ call'.op = "getAvailableContent"
        /\ ~UserUnknownOrExpired(call'.args.userId)
        /\ call'.args.sessionId \in DOMAIN sessions
        /\ sessions[call'.args.sessionId].type = "object"
        /\ ~SessionUnknownOrExpired(call'.args.sessionId)
        /\ sessions[call'.args.sessionId].userId # call'.args.userId)
       => /\ FailedWith(call', "BadRequestException")
          /\ call'.result.value.detail.statusCode = Num(400)]_vars

-----------------------------------------------------------------------------
(* Claims about the content and the users of the service *)

\* The entries stored for the user, in the order of the store.
EntriesOf(userId) == IF userId \in DOMAIN content THEN content[userId].items ELSE <<>>

\* The ids of the entries stored for the user.
EntryIds(userId) == {EntriesOf(userId)[i].id : i \in 1 .. Len(EntriesOf(userId))}

\* The user is stored and not expired, and the session is stored, not expired
\* and owned by the user.
OwnerWithLiveSession(sessionId, userId) ==
    /\ ~UserUnknownOrExpired(userId)
    /\ sessionId \in DOMAIN sessions
    /\ sessions[sessionId].type = "object"
    /\ ~SessionUnknownOrExpired(sessionId)
    /\ sessions[sessionId].userId = userId

\* C21: getAvailableContent by a stored, unexpired user with a live session of
\* their own fails with NotFoundException (status 404) when the user has no
\* entry whose id is contentId, and otherwise resolves with the content of the
\* entry whose id is contentId.
C21_ContentLookupById ==
    [][(now' = now /\ call'.op = "getAvailableContent"
        /\ OwnerWithLiveSession(call'.args.sessionId, call'.args.userId))
       => LET entries == EntriesOf(call'.args.userId)
              hits == {i \in 1 .. Len(entries) : entries[i].id = call'.args.contentId}
          IN  IF hits = {}
              THEN /\ FailedWith(call', "NotFoundException")
                   /\ call'.result.value.detail.statusCode = Num(404)
              ELSE \E i \in hits : call'.result = Resolved(entries[i].content)]_vars

\* C22: createContent fails with BadRequestException when userId is not a
\* stored user or the content is not a non-null object, and leaves the content
\* store unchanged.
C22_CreateContentRejectsBadRequest ==
    [][(now' = now /\ call'.op = "createContent"
        /\ (call'.args.userId \notin DOMAIN users
            \/ ~validNewContent(call'.args.newContent)))
       => /\ FailedWith(call', "BadRequestException")
          /\ content' = content]_vars

\* C23: createContent for a stored user with valid content appends exactly one
\* entry {id, content} to that user's collection and resolves with the new id,
\* and a getContent(userId, thatId) that follows resolves with the content
\* supplied.
C23_CreateContentAppendsOneEntry ==
    [][/\ (now' = now /\ call'.op = "createContent"
           /\ call'.args.userId \in DOMAIN users
           /\ validNewContent(call'.args.newContent))
          => /\ call'.result.state = "resolved"
             /\ call'.args.userId \in DOMAIN content'
             /\ LET before == EntriesOf(call'.args.userId)
                    after == content'[call'.args.userId].items
                IN  /\ Len(after) = Len(before) + 1
                    /\ SubSeq(after, 1, Len(before)) = before
                    /\ after[Len(after)].id = call'.result.value
                    /\ after[Len(after)].content = call'.args.newContent
       /\ (now' = now /\ call.op = "createContent" /\ call.result.state = "resolved"
           /\ call'.op = "getContent"
           /\ call'.args.userId = call.args.userId
           /\ IdStr(call'.args.contentId) = call.result.value)
          => call'.result = Resolved(call.args.newContent)]_vars

\* C24: getContents(userId) with the default filter resolves with the user's
\* entries in the order they were stored, and a createContent call neither
\* reorders nor removes the entries stored before it.
C24_ContentsKeepInsertionOrder ==
    [][/\ (now' = now /\ call'.op = "getContents"
           /\ call'.args.userId \in DOMAIN users
           /\ call'.args.userId \in DOMAIN content)
          => call'.result = Resolved(Array(EntriesOf(call'.args.userId)))
       /\ (now' = now /\ call'.op = "createContent")
          => \A u \in DOMAIN content :
                /\ u \in DOMAIN content'
                /\ Len(content'[u].items) >= Len(content[u].items)
                /\ SubSeq(content'[u].items, 1, Len(content[u].items))
                      = content[u].items]_vars

\* C25: getContents(userId) for a user with no stored content resolves with an
\* empty collection; it does not fail.
C25_NoContentIsEmptyCollection ==
    [][(now' = now /\ call'.op = "getContents"
        /\ call'.args.userId \in DOMAIN users
        /\ call'.args.userId \notin DOMAIN content)
       => call'.result = Resolved(Array(<<>>))]_vars

\* C26: within one user's collection no two entries share an id: the id
\* createContent allocates is drawn against the ids of the entries already
\* stored for that user, so the call for a stored user with valid content
\* stores an entry whose id none of the user's earlier entries has, and the
\* entry createContentEntry builds for valid content gets its id.
C26_ContentIdsUniquePerUser ==
    [][/\ (now' = now /\ call'.op = "createContent"
           /\ call'.args.userId \in DOMAIN users
           /\ validNewContent(call'.args.newContent))
          => /\ call'.result.state = "resolved"
             /\ ReservedContentIds = EntryIds(call'.args.userId)
             /\ call'.args.userId \in DOMAIN content'
             /\ LET after == content'[call'.args.userId].items
                IN  /\ Len(after) > 0
                    /\ after[Len(after)].id \notin EntryIds(call'.args.userId)
                    /\ \A i, j \in 1 .. Len(after) : after[i].id = after[j].id => i = j
       /\ (now' = now /\ call'.op = "createContentEntry"
           /\ validNewContent(call'.args.newContent))
          => call'.result.state = "resolved"]_vars

\* No two stored user records have the same userName.
UniqueUserNames(store) ==
    \A a, b \in DOMAIN store : store[a].userName = store[b].userName => a = b

\* Some stored user record has the userName.
Registered(userName) == \E u \in DOMAIN users : users[u].userName = userName

\* C27: user names are unique: a createUser call leaves no two stored user
\* records with the same userName, and a createUser with a userName that is
\* already registered adds no record with that name.
C27_UserNamesStayUnique ==
    [][(now' = now /\ call'.op = "createUser")
       => /\ UniqueUserNames(users) => UniqueUserNames(users')
          /\ Registered(call'.args.userName)
                => \A u \in DOMAIN users' :
                      users'[u].userName = call'.args.userName => u \in DOMAIN users]_vars

\* C27 (witness): createUser has been called with a valid secret and a valid
\* userName that a stored user record already has.
C27_RegisteredNameReused ==
    /\ call.op = "createUser"
    /\ Registered(call.args.userName)
    /\ validUserName(call.args.userName)
    /\ checkSecret(call.args.secret, "Invalid secret").state = "resolved"
    /\ UniqueUserNames(users)

\* C28: createUser with an invalid userName or a secret checkSecret rejects
\* fails with an InvalidParameterException that carries the validation error
\* as its cause, and stores no user record.
C28_CreateUserRejectsInvalid ==
    [][(now' = now /\ call'.op = "createUser"
        /\ (~validUserName(call'.args.userName)
            \/ checkSecret(call'.args.secret, "Invalid secret").state # "resolved"))
       => /\ FailedWith(call', "InvalidParameterException")
          /\ call'.result.value.cause.type = "error"
          /\ users' = users]_vars

\* C29: validPassword fails with NotFoundException when no stored user has the
\* userName, fails with AccessForbiddenException when a stored user has it and
\* the hash of the secret differs from the stored one (the stored records of
\* the model hold no hash, so every secret differs), and never changes the
\* store of users.
C29_ValidPasswordFailures ==
    [][(now' = now /\ call'.op = "validPassword")
       => /\ ~Registered(call'.args.userName) => FailedWith(call', "NotFoundException")
          /\ Registered(call'.args.userName)
                => FailedWith(call', "AccessForbiddenException")
          /\ users' = users]_vars

-----------------------------------------------------------------------------
(* Claims about the construction of the service *)

\* Every property the crypt options have holds a valid value.
AllCryptOptionsValid(options) ==
    \A property \in {"algorithm", "length", "method", "saltLength", "rounds"} :
        Has(options, property) => ValidCryptProperty(property, options[property])

\* The supplied value of the property, or the fallback.
SuppliedOr(options, property, fallback) ==
    IF Has(options, property) THEN options[property] ELSE fallback

\* C32: constructing the service with {} or with crypt options holding only
\* valid values does not throw, and the crypt options of the service are the
\* defaults overridden by the supplied values, with saltLength defaulting to
\* half of length and rounds to 1; constructing it with undefined throws a
\* TypeError.
C32_ConstructionWithCryptOptions ==
    construction.result # NotCalled =>
        LET param == construction.param
            result == construction.result
        IN  /\ param = Undefined
                => (result.state = "thrown" /\ result.value.name = "TypeError")
            /\ (param # Undefined /\ ~Has(param, "cryptOptions"))
                => result.state = "returned"
            /\ (param # Undefined /\ Has(param, "cryptOptions")
                /\ AllCryptOptionsValid(param.cryptOptions))
                => /\ result.state = "returned"
                   /\ result.value.cryptOptions.type = "object"
                   /\ LET supplied == param.cryptOptions
                          options == result.value.cryptOptions
                          length == SuppliedOr(supplied, "length", DefaultCryptOptions.length)
                      IN  /\ options.algorithm
                                = SuppliedOr(supplied, "algorithm", DefaultCryptOptions.algorithm)
                          /\ options.length = length
                          /\ options.method
                                = SuppliedOr(supplied, "method", DefaultCryptOptions.method)
                          /\ options.saltLength
                                = SuppliedOr(supplied, "saltLength", HalfOf(length))
                          /\ options.rounds = SuppliedOr(supplied, "rounds", Num(1))

-----------------------------------------------------------------------------
(* Claims about the session module *)

\* The session was created with a time out and no explicit expires.
CreatedWithTimeOut ==
    /\ moduleSession.op # "none"
    /\ moduleSession.params.expires = Undefined
    /\ moduleSession.params.timeOutMs.type = "number"
    /\ moduleSession.params.timeOutMs.n > 0

\* C39: for a session created with timeOutMs = T and no explicit expires,
\* expires is updated + T and active is true exactly when expires is unset or
\* later than now; after updateSession(session, data, u) the resulting session
\* has updated = u and expires = u + T.
C39_ExpiryFollowsLatestUpdate ==
    CreatedWithTimeOut =>
        LET T == moduleSession.params.timeOutMs.n
            object == moduleSession.object
        IN  /\ moduleSession.result.state = "resolved"
            /\ Session_updated(object) = moduleSession.updated
            /\ Session_expires(object) = Num(moduleSession.updated.n + T)
            /\ Session_active(object, now)
                  <=> (IsNullish(Session_expires(object)) \/ Session_expires(object).n > now)

\* C39 (with data): the same for the updates that hand over a session data.
C39_ExpiryFollowsUpdateWithData ==
    (CreatedWithTimeOut /\ moduleSession.result.state = "resolved") =>
        Session_expires(moduleSession.object)
            = Num(moduleSession.updated.n + moduleSession.params.timeOutMs.n)

-----------------------------------------------------------------------------
(* Claims about the identifier allocation *)

\* C35: identifier allocation terminates: the retry loop of createSession and
\* of createUser draws a new candidate on every iteration (so that, with an
\* unused identifier left, it leaves the loop with an unused id), also when
\* the first id drawn collides with a stored one.
C35_EveryIterationDrawsAgain ==
    [][(allocation.pc = "loop" /\ allocation'.pc = "loop"
        /\ allocation'.iterations = allocation.iterations + 1)
       => allocation'.draws = allocation.draws + 1]_vars

-----------------------------------------------------------------------------
(* Claims about the frame and the lifetime of sessions *)

\* The stored session is expired at the time: its expires is set and at or
\* before the time.
ExpiredAt(record, time) ==
    record.type = "object" /\ ~IsNullish(record.expires) /\ record.expires.n <= time

\* C34: sessions are never physically deleted: a key of the session table
\* stays a key of it after every call and every tick of the clock, for an
\* expired or closed session too.
C34_SessionsAreNeverDeleted ==
    [][\A k \in DOMAIN sessions : k \in DOMAIN sessions']_vars

\* C34 (witness): createSession has stored a key, and closeSession has been
\* called on that key after it.
C34_StoredKeyWasClosed ==
    /\ "[object Promise]" \in DOMAIN sessions
    /\ call.op = "closeSession"
    /\ call.args.sessionId = "[object Promise]"
    /\ CloseTimeNotInFuture(call.args.closeTime, call.now)

\* C36: updateSession and closeSession on session s change at most the record
\* of s: every other session record, every user record and every content
\* collection is the same before and after the call, whether it succeeds or
\* fails.
C36_SessionCallsTouchOneRecord ==
    [][(now' = now /\ call'.op \in {"updateSession", "closeSession"})
       => /\ users' = users
          /\ content' = content
          /\ \A k \in DOMAIN sessions \ {call'.args.sessionId} :
                k \in DOMAIN sessions' /\ sessions'[k] = sessions[k]
          /\ \A k \in DOMAIN sessions' \ {call'.args.sessionId} : k \in DOMAIN sessions]_vars

\* C36 (witness): closeSession has been called, with a close time that is not
\* in the future, on a stored session while another session is stored.
C36_ClosedBesideAnotherSession ==
    /\ call.op = "closeSession"
    /\ call.args.sessionId = "s1"
    /\ CloseTimeNotInFuture(call.args.closeTime, call.now)
    /\ {"s1", "s2"} \subseteq DOMAIN sessions
    /\ sessions["s2"].type = "object"

\* C37: expiry is final: a session that is expired stays stored and expired
\* after every call and every tick of the clock, and its expires never moves
\* to a later time.
C37_ExpiryIsFinal ==
    [][\A k \in DOMAIN sessions :
          ExpiredAt(sessions[k], now)
             => /\ k \in DOMAIN sessions'
                /\ ExpiredAt(sessions'[k], now')
                /\ sessions'[k].expires.n <= sessions[k].expires.n]_vars

\* C37 (witness): updateSession has been called by the owner on a session that
\* was expired when the call was made, in a service with a time out.
C37_OwnerUpdatedExpiredSession ==
    /\ call.op = "updateSession"
    /\ ByOwner(call.args)
    /\ ExpiredAt(sessions[call.args.sessionId], call.now)
    /\ sessionTimeOut # Null

\* C38: every stored session has no expires or an expires at or after its
\* created, whatever createSession, updateSession and closeSession calls were
\* made, closeSession with an explicit past close time included.
C38_ExpiryNotBeforeCreation ==
    \A k \in DOMAIN sessions :
        sessions[k].type = "object"
            => (IsNullish(sessions[k].expires)
                \/ sessions[k].expires.n >= sessions[k].created.n)

\* C38 (witness): closeSession has been called on a stored, active session
\* with an explicit close time before the session's created.
C38_ClosedBeforeCreation ==
    /\ call.op = "closeSession"
    /\ call.args.sessionId \in DOMAIN sessions
    /\ sessions[call.args.sessionId].type = "object"
    /\ ~ExpiredAt(sessions[call.args.sessionId], call.now)
    /\ ~IsNullish(call.args.closeTime)
    /\ call.args.closeTime.n < sessions[call.args.sessionId].created.n

-----------------------------------------------------------------------------
(* Claims about the password policy *)

\* The message of the first character class, in the order lower case, upper
\* case, digit, punctuation, that the characters do not contain.
FirstAbsentClassMessage(chars) ==
    IF ~\E i \in DOMAIN chars : Category(chars[i]) = "Ll" THEN "Missing lower case letter"
    ELSE IF ~\E i \in DOMAIN chars : Category(chars[i]) = "Lu" THEN "Missing upper case letter"
    ELSE IF ~\E i \in DOMAIN chars : Category(chars[i]) = "Nd" THEN "Missing digit"
    ELSE IF ~\E i \in DOMAIN chars : Category(chars[i]) = "Po" THEN "Missing punctuation character"
    ELSE "none"

\* checkSecret was called on a string of valid shape that lacks a class.
SecretLacksClass ==
    /\ secretCall.result # NotCalled
    /\ secretCall.secret.type = "string"
    /\ VALID_PASSWORD_REGEX(secretCall.secret.chars)
    /\ FirstAbsentClassMessage(secretCall.secret.chars) # "none"

\* C7: for every string that passes the shape predicate and lacks a character
\* class, checkSecret fails and the cause its failure reports names the first
\* absent class in the order lower case, upper case, digit, punctuation.
C7_FirstAbsentClassReported ==
    SecretLacksClass =>
        /\ secretCall.result.state = "rejected"
        /\ secretCall.result.value.cause.type = "error"
        /\ secretCall.result.value.cause.message =
              FirstAbsentClassMessage(secretCall.secret.chars)

\* C30: checkSecret checks in order: a candidate that is not a string is
\* rejected with an InvalidParameterException whose cause is a TypeError; a
\* string that fails the overall shape is rejected with one whose cause is a
\* SyntaxError, whatever classes it holds; a string that passes the shape and
\* holds a lower case letter, an upper case letter, a digit and a punctuation
\* character is resolved with exactly the candidate.
C30_CheckSecretOrder ==
    secretCall.result # NotCalled =>
        LET secret == secretCall.secret
            result == secretCall.result
        IN  /\ TypeOf(secret) # "string"
                => /\ result.state = "rejected"
                   /\ result.value.name = "InvalidParameterException"
                   /\ result.value.cause.type = "error"
                   /\ result.value.cause.name = "TypeError"
            /\ (TypeOf(secret) = "string" /\ ~VALID_PASSWORD_REGEX(secret.chars))
                => /\ result.state = "rejected"
                   /\ result.value.name = "InvalidParameterException"
                   /\ result.value.cause.type = "error"
                   /\ result.value.cause.name = "SyntaxError"
            /\ (TypeOf(secret) = "string" /\ VALID_PASSWORD_REGEX(secret.chars)
                /\ HAS_LOWER_CASE_LETTER_REGEX(secret.chars)
                /\ HAS_UPPER_CASE_LETTER_REGEX(secret.chars)
                /\ HAS_DIGIT_REGEX(secret.chars)
                /\ HAS_PUNCTUATION_REGEX(secret.chars))
                => result = Resolved(secret)

\* The shape the claims give a candidate: not empty, no white space at either
\* end, only letters, numbers, punctuation and spaces, and no space next to
\* another space.
SingleSpacedShape(s) ==
    /\ Len(s) >= 1
    /\ ~IsWhiteSpace(s[1])
    /\ ~IsWhiteSpace(s[Len(s)])
    /\ \A i \in DOMAIN s : IsWordChar(s[i]) \/ s[i] = " "
    /\ \A i \in 1 .. Len(s) - 1 : ~(s[i] = " " /\ s[i + 1] = " ")

\* C31: VALID_PASSWORD_REGEX accepts a string exactly when it is not empty,
\* neither starts nor ends with white space, and is made of letters, numbers
\* and punctuation with spaces occurring singly between them: checkSecret
\* rejects a string for its shape exactly when the string lacks that shape.
C31_ShapeIsSingleSpaced ==
    (secretCall.result # NotCalled /\ TypeOf(secretCall.secret) = "string")
        => (VALID_PASSWORD_REGEX(secretCall.secret.chars)
                <=> SingleSpacedShape(secretCall.secret.chars))

-----------------------------------------------------------------------------
(* Claims about the task model *)

\* What the claims expect of a linked task over the members handed to its
\* factory: done by the aggregation predicate, partial when some member is
\* done and the task is not.
ExpectedLinkedDone(fn, members) ==
    IF fn = "every" THEN \A i \in DOMAIN members : taskDone[members[i]]
    ELSE \E i \in DOMAIN members : taskDone[members[i]]

ExpectedLinkedPartial(fn, members) ==
    (\E i \in DOMAIN members : taskDone[members[i]]) /\ ~ExpectedLinkedDone(fn, members)

\* C8: the done and partial properties of what createCompleteAllTask and
\* createCompleteAnyTask return: done is true iff every (any) member is done,
\* partial is true iff some member is done and the task is not done.
C8_LinkedTaskDoneAndPartial ==
    LET fn == linkedTask.value.completionFn
        members == linkedTask.value.completedBy
    IN  /\ GetLinked(linkedTask, "done") = BoolStr(ExpectedLinkedDone(fn, members))
        /\ GetLinked(linkedTask, "partial") = BoolStr(ExpectedLinkedPartial(fn, members))

\* C33: composite tasks never go stale: after every change of the done flag
\* of a member task, the done of a linked task (the object the factory's
\* promise is fulfilled with) equals the aggregation predicate over the
\* members' done values as they are now, and its partial equals (some member
\* done and not done).
C33_CompositesNeverStale ==
    [][taskDone' # taskDone
       => /\ GetLinked(linkedTask.value, "done")'
                = BoolStr(ExpectedLinkedDone(linkedTask.value.completionFn,
                                             linkedTask.value.completedBy))'
          /\ GetLinked(linkedTask.value, "partial")'
                = BoolStr(ExpectedLinkedPartial(linkedTask.value.completionFn,
                                                linkedTask.value.completedBy))']_vars

\* C33 (witness): a complete-all task over two distinct members, of which the
\* first is done and the second is not, so that the task is partial and one
\* more change of a member completes it.
C33_MembersDifferUnderComposite ==
    /\ linkedTask.value.completionFn = "every"
    /\ Len(linkedTask.value.completedBy) = 2
    /\ taskDone[linkedTask.value.completedBy[1]]
    /\ ~taskDone[linkedTask.value.completedBy[2]]
    /\ GetLinked(linkedTask.value, "partial") = "true"

\* Some member of the blocking task's blockedBy list is done.
SomeBlockerDone ==
    \E i \in DOMAIN blockingTask.blockedBy : taskDone[blockingTask.blockedBy[i]]

\* C9: for a task built by createCompleteAllStepsBlockingTask, blocked is true
\* iff some member of blockedBy is done, and whenever it is blocked its done is
\* false whatever the state of completedBy.
C9_BlockedForcesNotDone ==
    /\ BlockingTask_blocked(blockingTask) = BoolStr(SomeBlockerDone)
    /\ SomeBlockerDone => BlockingTask_done(blockingTask) = "false"

\* The tri-state the claims expect of an unblocked task over completedBy.
ExpectedTriState(members) ==
    IF \A i \in DOMAIN members : taskDone[members[i]] THEN "true"
    ELSE IF \E i \in DOMAIN members : taskDone[members[i]] THEN "undefined"
    ELSE "false"

\* C10: for an unblocked task built by createCompleteAllStepsBlockingTask, done
\* is true when all completedBy members are done, undefined exactly when some
\* but not all are done, false when none is done; partial is true exactly in
\* the undefined case.
C10_TriStateDone ==
    ~SomeBlockerDone =>
        /\ BlockingTask_done(blockingTask) = ExpectedTriState(blockingTask.completedBy)
        /\ BlockingTask_partial(blockingTask) =
              BoolStr(ExpectedTriState(blockingTask.completedBy) = "undefined")

====
